---- MODULE Spec2Model ----
(***************************************************************************)
(* Model of pysar/generate_kmz_timeseries.py: get_lat_lon() and the        *)
(* sequential body of main(), which turns a velocity raster and a          *)
(* time-series raster into a KML document of placemarks and packs it,      *)
(* with its assets, into a KMZ archive.                                    *)
(*                                                                         *)
(* Numbers are integers; a coordinate produced by np.mgrid is an exact     *)
(* fraction <<numerator, denominator>>.  2-D arrays are functions          *)
(* [0..H-1 -> [0..W-1 -> value]], 1-D arrays are sequences (Python index   *)
(* i is sequence index i+1).                                               *)
(***************************************************************************)
EXTENDS Integers, Sequences, FiniteSets

VARIABLES
    inps,          \* parsed command line: [vlim, colormap]
    meta,          \* ts_obj.metadata: LENGTH, WIDTH, X/Y_FIRST, X/Y_STEP
    velFile,       \* content of the velocity file, 2-D, NaN where missing
    tsFile,        \* content of the time-series file, <<date>> -> 2-D
    pc,            \* position of main()
    mask,          \* ~np.isnan(vel), 2-D boolean
    vel,           \* masked velocity * 100, 1-D
    ts,            \* masked time-series * 100, <<date>> -> 1-D
    ts_min,
    ts_max,
    min_vel,
    max_vel,
    cmap,
    lats,          \* masked latitudes, 1-D
    lons,          \* masked longitudes, 1-D
    coords,        \* list(zip(lats, lons)), 1-D of <<lat, lon>>
    kml_document,  \* children of the KML Document element, in order
    kml,           \* children of the root kml element
    i,             \* loop variable of the placemark loop
    files,         \* loose files present in the working directory
    kmz,           \* members of the archive base.kmz, {} while there is none
    errs           \* steps whose command or call has failed

vars == <<inps, meta, velFile, tsFile, pc, mask, vel, ts, ts_min, ts_max,
          min_vel, max_vel, cmap, lats, lons, coords, kml_document, kml, i, files, kmz, errs>>

(***************************************************************************)
(* Bounds of the model.                                                    *)
(***************************************************************************)
MaxH == 3
MaxW == 4
MaxInvalid == 1
NumDates == 2
MaxNaNCell == 1
MaxFailures == 1

(***************************************************************************)
(* Values.                                                                 *)
(***************************************************************************)
None == "None"

\* np.nan: a value outside the range of the data, never used as a number
NaN == 999999

isnan(x) == x = NaN

\* the value of a numeric local of main that is not assigned yet
Unset == -NaN

\* x * 100 on floats: NaN stays NaN
Times100(x) == IF isnan(x) THEN NaN ELSE x * 100

\* step of the placemark loop, range(0, len(coords), 10)
Stride == 10

cbar_png_file == "base_cbar.png"
dygraph_file  == "dygraph-combined.js"
dot_file      == "shaded_dot.png"
kml_file      == "base.kml"
kmz_file      == "base.kmz"

\* names matplotlib resolves to a colormap
KnownCmaps == {"jet", "RdBu"}

\* ts_obj.times formatted "%Y-%m-%d", ascending
dates == [j \in 1..NumDates |-> j]

(***************************************************************************)
(* get_lat_lon                                                             *)
(***************************************************************************)
\* MGridAxis with the stop value left out of the axis (step (stop - start) / num)
MGridAxis_OpenEnd(start, stop, num, idx) ==
    <<idx * (stop - start) + start * num, num>>

\* one axis of np.mgrid[start:stop:num*1j] at index idx: with a complex step
\* the step is (stop - start) / (num - 1), or 1 when num is 1
MGridAxis(start, stop, num, idx) ==
    IF num # 1
    THEN <<idx * (stop - start) + start * (num - 1), num - 1>>
    ELSE <<idx * 1 + start, 1>>

get_lat_lon(m) ==
    LET lat_num  == m.LENGTH
        lon_num  == m.WIDTH
        lat0     == m.Y_FIRST
        lon0     == m.X_FIRST
        lat_step == m.Y_STEP
        lon_step == m.X_STEP
        lat1     == lat0 + lat_step * lat_num
        lon1     == lon0 + lon_step * lon_num
        lat_grid == [r \in 0..(lat_num - 1) |-> [c \in 0..(lon_num - 1) |->
                        MGridAxis(lat0, lat1, lat_num, r)]]
        lon_grid == [r \in 0..(lat_num - 1) |-> [c \in 0..(lon_num - 1) |->
                        MGridAxis(lon0, lon1, lon_num, c)]]
    IN  <<lat_grid, lon_grid>>

(***************************************************************************)
(* numpy and Python helpers used by main                                   *)
(***************************************************************************)
\* arr[mask], or arr[mask] * 100 when times100: the elements of a 2-D array
\* where mask is True, in C order
RECURSIVE SelectFrom(_, _, _, _, _, _)
SelectFrom(arr, msk, H, W, k, times100) ==
    IF k >= H * W THEN <<>>
    ELSE LET r == k \div W
             c == k % W
         IN  (IF msk[r][c]
              THEN <<IF times100 THEN Times100(arr[r][c]) ELSE arr[r][c]>>
              ELSE <<>>)
                 \o SelectFrom(arr, msk, H, W, k + 1, times100)

\* arr[mask]
BoolIndex(arr, msk) ==
    SelectFrom(arr, msk, Cardinality(DOMAIN arr), Cardinality(DOMAIN arr[0]), 0, FALSE)

\* arr[mask] * 100
BoolIndexTimes100(arr, msk) ==
    SelectFrom(arr, msk, Cardinality(DOMAIN arr), Cardinality(DOMAIN arr[0]), 0, TRUE)

\* list(zip(a, b))
zip(a, b) == [k \in 1..Len(a) |-> <<a[k], b[k]>>]

\* np.min / np.max of a flat sequence: NaN if any element is NaN
RECURSIVE NpFold(_, _, _)
NpFold(s, acc, less) ==
    IF s = <<>> THEN acc
    ELSE IF isnan(acc) \/ isnan(Head(s)) THEN NaN
    ELSE NpFold(Tail(s), IF less[Head(s), acc] THEN Head(s) ELSE acc, less)

Lt == [x \in Int, y \in Int |-> x < y]
Gt == [x \in Int, y \in Int |-> x > y]

RECURSIVE Flatten(_)
Flatten(rows) == IF rows = <<>> THEN <<>> ELSE Head(rows) \o Flatten(Tail(rows))

\* np_min taken over the first date only
np_min_FirstDate(a) == NpFold(Tail(a[1]), Head(a[1]), Lt)

np_min(a) == NpFold(Tail(Flatten(a)), Head(Flatten(a)), Lt)
np_max(a) == NpFold(Tail(Flatten(a)), Head(Flatten(a)), Gt)

\* builtin min / max over a 1-D array
RECURSIVE PyFold(_, _, _)
PyFold(s, acc, less) ==
    IF s = <<>> THEN acc
    ELSE PyFold(Tail(s), IF less[Head(s), acc] THEN Head(s) ELSE acc, less)

py_min(s) == PyFold(Tail(s), Head(s), Lt)
py_max(s) == PyFold(Tail(s), Head(s), Gt)

\* mpl.colors.Normalize(vmin, vmax)(v) as a fraction; 0 when vmin = vmax
norm(v) ==
    IF min_vel = max_vel THEN <<0, 1>> ELSE <<v - min_vel, max_vel - min_vel>>

\* colormap(norm(v)): the colour the named colormap gives the normalised value
rgba(v) == [cmap |-> cmap, at |-> norm(v)]

\* to_hex([rgba[3], rgba[2], rgba[1], rgba[0]], keep_alpha=True)[1:]
hex(v) == [order |-> <<"a", "b", "g", "r">>, of |-> rgba(v)]

(***************************************************************************)
(* Inputs                                                                  *)
(***************************************************************************)
Cells(H, W) == 0..(H * W - 1)

\* velocity and displacement stored for the cell of flat index k
VelData(k) == k + 1
TsData(j, k) == IF j = 1 THEN 1 - k ELSE j + (k % 3)

Metas ==
    {[LENGTH |-> H, WIDTH |-> W, Y_FIRST |-> 10, X_FIRST |-> 20,
      Y_STEP |-> -1, X_STEP |-> 1] : H \in 1..MaxH, W \in 1..MaxW}

VelFiles(H, W) ==
    {[r \in 0..(H - 1) |-> [c \in 0..(W - 1) |->
        IF (r * W + c) \in inv THEN NaN ELSE VelData(r * W + c)]] :
      inv \in {s \in SUBSET Cells(H, W) : Cardinality(s) <= MaxInvalid}}

\* at most one missing value in the time-series file, at date nj of cell nk
\* (nj = 0: none); the files with a missing value are read with the default
\* options only
TsFiles(H, W, options) ==
    {[j \in 1..NumDates |-> [r \in 0..(H - 1) |-> [c \in 0..(W - 1) |->
        IF j = nj /\ r * W + c = nk THEN NaN ELSE TsData(j, r * W + c)]]] :
      nj \in IF options = [vlim |-> None, colormap |-> None]
             THEN 0..NumDates ELSE {0},
      nk \in 0..MaxNaNCell}

Configs ==
    {[vlim |-> None, colormap |-> None],
     [vlim |-> None, colormap |-> "RdBu"],
     [vlim |-> None, colormap |-> "bogus"],
     [vlim |-> <<0, 1000>>, colormap |-> None]}

Init ==
    /\ inps \in Configs
    /\ meta \in Metas
    /\ velFile \in VelFiles(meta.LENGTH, meta.WIDTH)
    /\ tsFile \in TsFiles(meta.LENGTH, meta.WIDTH, inps)
    /\ pc = "read"
    /\ mask = None
    /\ vel = None
    /\ ts = None
    /\ ts_min = Unset
    /\ ts_max = Unset
    /\ min_vel = Unset
    /\ max_vel = Unset
    /\ cmap = None
    /\ lats = None
    /\ lons = None
    /\ coords = None
    /\ kml_document = None
    /\ kml = None
    /\ i = Unset
    /\ files = {}
    /\ kmz = {}
    /\ errs = {}

(***************************************************************************)
(* main                                                                    *)
(***************************************************************************)
\* a step that can fail does so only while fewer than MaxFailures have
Outcomes == IF Cardinality(errs) < MaxFailures THEN BOOLEAN ELSE {TRUE}

\* lines 88-94: read, mask, scale; np.min of an empty array raises
ReadData ==
    /\ pc = "read"
    /\ mask' = [r \in DOMAIN velFile |-> [c \in DOMAIN velFile[r] |->
                    ~isnan(velFile[r][c])]]
    /\ vel' = BoolIndexTimes100(velFile, mask')
    /\ ts' = [j \in 1..NumDates |-> BoolIndexTimes100(tsFile[j], mask')]
    /\ IF Len(vel') = 0
       THEN /\ pc' = "failed"
            /\ errs' = errs \cup {"np.min"}
            /\ UNCHANGED <<ts_min, ts_max>>
       ELSE /\ ts_min' = np_min(ts')
            /\ ts_max' = np_max(ts')
            /\ pc' = "limits"
            /\ UNCHANGED errs
    /\ UNCHANGED <<inps, meta, velFile, tsFile, min_vel, max_vel, cmap, lats, lons, coords,
                   kml_document, kml, i, files, kmz>>

\* lines 98-108
SetLimits ==
    /\ pc = "limits"
    /\ IF inps.vlim = None
       THEN /\ min_vel' = py_min(vel)
            /\ max_vel' = py_max(vel)
       ELSE /\ min_vel' = inps.vlim[1]
            /\ max_vel' = inps.vlim[2]
    /\ cmap' = IF inps.colormap = None THEN "jet" ELSE inps.colormap
    /\ pc' = "coords"
    /\ UNCHANGED <<inps, meta, velFile, tsFile, mask, vel, ts, ts_min, ts_max,
                   lats, lons, coords, kml_document, kml, i, files, kmz, errs>>

\* lines 112-114
Coordinates ==
    /\ pc = "coords"
    /\ lats' = BoolIndex(get_lat_lon(meta)[1], mask)
    /\ lons' = BoolIndex(get_lat_lon(meta)[2], mask)
    /\ coords' = zip(lats', lons')
    /\ pc' = "colorbar"
    /\ UNCHANGED <<inps, meta, velFile, tsFile, mask, vel, ts, ts_min, ts_max,
                   min_vel, max_vel, cmap, kml_document, kml, i, files, kmz, errs>>

\* Colorbar without the lookup of the colormap name
Colorbar_NameNotResolved ==
    /\ pc = "colorbar"
    /\ \E ok \in Outcomes :
         IF ok
         THEN /\ files' = files \cup {cbar_png_file}
              /\ pc' = "document"
              /\ UNCHANGED errs
         ELSE /\ pc' = "failed"
              /\ errs' = errs \cup {"savefig"}
              /\ UNCHANGED files
    /\ UNCHANGED <<inps, meta, velFile, tsFile, mask, vel, ts, ts_min, ts_max,
                   min_vel, max_vel, cmap, lats, lons, coords, kml_document, kml, i, kmz>>

\* lines 118-127: ColorbarBase resolves the colormap name and raises on an
\* unknown one; savefig writes the legend image or raises
Colorbar ==
    /\ pc = "colorbar"
    /\ IF cmap \notin KnownCmaps
       THEN /\ pc' = "failed"
            /\ errs' = errs \cup {"colormap"}
            /\ UNCHANGED files
       ELSE \E ok \in Outcomes :
              IF ok
              THEN /\ files' = files \cup {cbar_png_file}
                   /\ pc' = "document"
                   /\ UNCHANGED errs
              ELSE /\ pc' = "failed"
                   /\ errs' = errs \cup {"savefig"}
                   /\ UNCHANGED files
    /\ UNCHANGED <<inps, meta, velFile, tsFile, mask, vel, ts, ts_min, ts_max,
                   min_vel, max_vel, cmap, lats, lons, coords, kml_document, kml, i, kmz>>

legend_overlay == [tag |-> "ScreenOverlay", href |-> cbar_png_file]

\* lines 131-148, and the loop's first index
CreateDocument ==
    /\ pc = "document"
    /\ kml_document' = <<legend_overlay>>
    /\ kml' = <<>>
    /\ i' = 0
    /\ pc' = "loop"
    /\ UNCHANGED <<inps, meta, velFile, tsFile, mask, vel, ts, ts_min, ts_max,
                   min_vel, max_vel, cmap, lats, lons, coords, files, kmz, errs>>

\* Placemark with the coordinate written latitude first
Placemark_LatFirst(n) ==
    [tag         |-> "Placemark",
     color       |-> hex(vel[n + 1]),
     icon        |-> dot_file,
     coordinates |-> <<coords[n + 1][1], coords[n + 1][2]>>,
     script      |-> dygraph_file,
     rows        |-> [j \in 1..Len(dates) |-> <<dates[j], ts[j][n + 1]>>],
     valueRange  |-> <<ts_min, ts_max>>]

\* lines 153-207: the placemark of index n of the masked arrays
Placemark(n) ==
    LET lat == coords[n + 1][1]
        lon == coords[n + 1][2]
        v   == vel[n + 1]
    IN  [tag         |-> "Placemark",
         color       |-> hex(v),
         icon        |-> dot_file,
         coordinates |-> <<lon, lat>>,
         script      |-> dygraph_file,
         rows        |-> [j \in 1..Len(dates) |-> <<dates[j], ts[j][n + 1]>>],
         valueRange  |-> <<ts_min, ts_max>>]

\* BuildPlacemark with a loop step one too large
BuildPlacemark_StepTooLarge ==
    /\ pc = "loop"
    /\ i < Len(coords)
    /\ kml_document' = Append(kml_document, Placemark(i))
    /\ i' = i + Stride + 1
    /\ UNCHANGED <<inps, meta, velFile, tsFile, pc, mask, vel, ts, ts_min, ts_max,
                   min_vel, max_vel, cmap, lats, lons, coords, kml, files, kmz, errs>>

\* BuildPlacemark putting the new placemark in front of the document's children
BuildPlacemark_Prepends ==
    /\ pc = "loop"
    /\ i < Len(coords)
    /\ kml_document' = <<Placemark(i)>> \o kml_document
    /\ i' = i + Stride
    /\ UNCHANGED <<inps, meta, velFile, tsFile, pc, mask, vel, ts, ts_min, ts_max,
                   min_vel, max_vel, cmap, lats, lons, coords, kml, files, kmz, errs>>

\* lines 152-210: one iteration of the loop
BuildPlacemark ==
    /\ pc = "loop"
    /\ i < Len(coords)
    /\ kml_document' = Append(kml_document, Placemark(i))
    /\ i' = i + Stride
    /\ UNCHANGED <<inps, meta, velFile, tsFile, pc, mask, vel, ts, ts_min, ts_max,
                   min_vel, max_vel, cmap, lats, lons, coords, kml, files, kmz, errs>>

\* line 212, when the range is exhausted
FinishDocument ==
    /\ pc = "loop"
    /\ i >= Len(coords)
    /\ kml' = Append(kml, kml_document)
    /\ pc' = "cp_dot"
    /\ UNCHANGED <<inps, meta, velFile, tsFile, mask, vel, ts, ts_min, ts_max,
                   min_vel, max_vel, cmap, lats, lons, coords, kml_document, i, files, kmz, errs>>

\* lines 216-219: os.system(cp), its exit status is not looked at
CopyDot ==
    /\ pc = "cp_dot"
    /\ \E ok \in Outcomes :
         IF ok
         THEN files' = files \cup {dot_file} /\ UNCHANGED errs
         ELSE errs' = errs \cup {"cp_dot"} /\ UNCHANGED files
    /\ pc' = "cp_dygraph"
    /\ UNCHANGED <<inps, meta, velFile, tsFile, mask, vel, ts, ts_min, ts_max,
                   min_vel, max_vel, cmap, lats, lons, coords, kml_document, kml, i, kmz>>

\* lines 222-225
CopyDygraph ==
    /\ pc = "cp_dygraph"
    /\ \E ok \in Outcomes :
         IF ok
         THEN files' = files \cup {dygraph_file} /\ UNCHANGED errs
         ELSE errs' = errs \cup {"cp_dygraph"} /\ UNCHANGED files
    /\ pc' = "write_kml"
    /\ UNCHANGED <<inps, meta, velFile, tsFile, mask, vel, ts, ts_min, ts_max,
                   min_vel, max_vel, cmap, lats, lons, coords, kml_document, kml, i, kmz>>

\* lines 228-230: open/write raise on failure
WriteKml ==
    /\ pc = "write_kml"
    /\ \E ok \in Outcomes :
         IF ok
         THEN /\ files' = files \cup {kml_file}
              /\ pc' = "zip"
              /\ UNCHANGED errs
         ELSE /\ errs' = errs \cup {"write_kml"}
              /\ pc' = "failed"
              /\ UNCHANGED files
    /\ UNCHANGED <<inps, meta, velFile, tsFile, mask, vel, ts, ts_min, ts_max,
                   min_vel, max_vel, cmap, lats, lons, coords, kml_document, kml, i, kmz>>

\* Zip without the marker icon among the files it names
Zip_NoIcon ==
    /\ pc = "zip"
    /\ \E ok \in Outcomes :
         IF ok
         THEN /\ kmz' = {kml_file, cbar_png_file, dygraph_file} \cap files
              /\ UNCHANGED errs
         ELSE /\ errs' = errs \cup {"zip"}
              /\ UNCHANGED kmz
    /\ pc' = "clean"
    /\ UNCHANGED <<inps, meta, velFile, tsFile, mask, vel, ts, ts_min, ts_max,
                   min_vel, max_vel, cmap, lats, lons, coords, kml_document, kml, i, files>>

\* lines 233-235: os.system(zip): the archive gets the named files that exist;
\* a failing zip leaves no archive; the exit status is not looked at
Zip ==
    /\ pc = "zip"
    /\ \E ok \in Outcomes :
         IF ok
         THEN /\ kmz' = {kml_file, cbar_png_file, dygraph_file, dot_file} \cap files
              /\ UNCHANGED errs
         ELSE /\ errs' = errs \cup {"zip"}
              /\ UNCHANGED kmz
    /\ pc' = "clean"
    /\ UNCHANGED <<inps, meta, velFile, tsFile, mask, vel, ts, ts_min, ts_max,
                   min_vel, max_vel, cmap, lats, lons, coords, kml_document, kml, i, files>>

\* lines 237-239: os.system(rm)
Clean ==
    /\ pc = "clean"
    /\ files' = files \ {kml_file, cbar_png_file, dygraph_file, dot_file}
    /\ pc' = "done"
    /\ UNCHANGED <<inps, meta, velFile, tsFile, mask, vel, ts, ts_min, ts_max,
                   min_vel, max_vel, cmap, lats, lons, coords, kml_document, kml, i, kmz, errs>>

Next ==
    \/ ReadData
    \/ SetLimits
    \/ Coordinates
    \/ Colorbar
    \/ CreateDocument
    \/ BuildPlacemark
    \/ FinishDocument
    \/ CopyDot
    \/ CopyDygraph
    \/ WriteKml
    \/ Zip
    \/ Clean

Spec == Init /\ [][Next]_vars

(***************************************************************************)
(* A second specification for get_lat_lon: the same program, started on    *)
(* rasters without missing values whose origin and signed steps vary.      *)
(***************************************************************************)
GeoMetas ==
    {[LENGTH |-> H, WIDTH |-> W, Y_FIRST |-> y0, X_FIRST |-> 20,
      Y_STEP |-> ys, X_STEP |-> xs] :
        H \in 1..MaxH, W \in 1..MaxW, y0 \in {-3, 10},
        ys \in {-2, -1, 1}, xs \in {-1, 1, 3}}

InitGeo ==
    /\ inps = [vlim |-> None, colormap |-> None]
    /\ meta \in GeoMetas
    /\ velFile = [r \in 0..(meta.LENGTH - 1) |-> [c \in 0..(meta.WIDTH - 1) |->
                    VelData(r * meta.WIDTH + c)]]
    /\ tsFile = [j \in 1..NumDates |-> [r \in 0..(meta.LENGTH - 1) |->
                    [c \in 0..(meta.WIDTH - 1) |-> TsData(j, r * meta.WIDTH + c)]]]
    /\ pc = "read"
    /\ mask = None
    /\ vel = None
    /\ ts = None
    /\ ts_min = Unset
    /\ ts_max = Unset
    /\ min_vel = Unset
    /\ max_vel = Unset
    /\ cmap = None
    /\ lats = None
    /\ lons = None
    /\ coords = None
    /\ kml_document = None
    /\ kml = None
    /\ i = Unset
    /\ files = {}
    /\ kmz = {}
    /\ errs = {}

SpecGeo == InitGeo /\ [][Next]_vars

(***************************************************************************)
(* Vocabulary of the properties, stated on the input files and on the      *)
(* document, independently of the masked arrays main() works with.         *)
(***************************************************************************)
H0 == meta.LENGTH
W0 == meta.WIDTH

\* the cell of flat (row-major) index q has a velocity
IsValid(q) == velFile[q \div W0][q % W0] # NaN

\* flat indices of the cells whose velocity is not missing
ValidCells == {q \in 0..(H0 * W0 - 1) : IsValid(q)}

\* the valid cell at position n (from 0) of the row-major scan: the one with
\* n valid cells before it
NthValid(n) ==
    CHOOSE q \in 0..(H0 * W0 - 1) :
        IsValid(q) /\ Cardinality({p \in 0..(q - 1) : IsValid(p)}) = n

\* a fraction <<numerator, denominator>> equals the integer x
FracIs(f, x) == f[1] = x * f[2]

LatOf(q) == get_lat_lon(meta)[1][q \div W0][q % W0]
LonOf(q) == get_lat_lon(meta)[2][q \div W0][q % W0]

\* the chart rows of cell q: one <<date, displacement in cm>> per date
RowsOf(q) ==
    [j \in 1..NumDates |-> <<dates[j], Times100(tsFile[j][q \div W0][q % W0])>>]

\* the placemark nodes of the document, in document order
NumPlacemarks == IF kml_document = None THEN 0 ELSE Len(kml_document) - 1
PlacemarkAt(k) == kml_document[k + 2]

\* the placemark loop has run to its end
LoopDone == pc \in {"cp_dot", "cp_dygraph", "write_kml", "zip", "clean", "done"}
            \/ (pc = "failed" /\ "write_kml" \in errs)

\* placemark node pm shows cell q and nothing else
BuiltFrom(pm, q) ==
    /\ pm.rows = RowsOf(q)
    /\ pm.color.of.at = norm(Times100(velFile[q \div W0][q % W0]))
    /\ pm.coordinates = <<LonOf(q), LatOf(q)>>

\* the value, in cm, of the time-series file at date j of cell q
Displacement(j, q) == Times100(tsFile[j][q \div W0][q % W0])

\* x is a value of the masked time-series field
IsMaskedValue(x) ==
    \E j \in 1..NumDates : \E q \in 0..(H0 * W0 - 1) :
        IsValid(q) /\ Displacement(j, q) = x

Loose == {kml_file, cbar_png_file, dygraph_file, dot_file}

C4_LegendFirst ==
    /\ [](kml_document # None =>
            /\ Len(kml_document) >= 1
            /\ kml_document[1] = legend_overlay
            /\ \A n \in 2..Len(kml_document) : kml_document[n].tag = "Placemark")
    /\ [][(kml_document # None /\ kml_document' # kml_document) =>
            /\ Len(kml_document') = Len(kml_document) + 1
            /\ SubSeq(kml_document', 1, Len(kml_document)) = kml_document
            /\ kml_document'[Len(kml_document')].tag = "Placemark"
            /\ kml_document[1].tag = "ScreenOverlay"]_vars

\* a document with the legend and two placemarks
C4_Witness ==
    /\ kml_document # None
    /\ Len(kml_document) = 3
    /\ kml_document[1].tag = "ScreenOverlay"
    /\ kml_document[3].tag = "Placemark"

(***************************************************************************)
(* The grids of get_lat_lon (C2)                                           *)
(***************************************************************************)
\* both grids of get_lat_lon have shape (H, W)
GridShape(g) ==
    /\ DOMAIN g[1] = 0..(H0 - 1)
    /\ DOMAIN g[2] = 0..(H0 - 1)
    /\ \A r \in 0..(H0 - 1) : DOMAIN g[1][r] = 0..(W0 - 1) /\ DOMAIN g[2][r] = 0..(W0 - 1)

\* once main has its coordinates of a raster without missing values, the
\* first and the last of them are the two corner cells of the grids
CornersInMain(lastLat, lastLon) ==
    (lats # None /\ Cardinality(ValidCells) = H0 * W0) =>
        /\ Len(lats) = H0 * W0
        /\ Len(lons) = H0 * W0
        /\ FracIs(lats[1], meta.Y_FIRST)
        /\ FracIs(lons[1], meta.X_FIRST)
        /\ FracIs(lats[H0 * W0], lastLat)
        /\ FracIs(lons[H0 * W0], lastLon)

\* C2 as claimed: for every H > 0 and W > 0, H = 1 and W = 1 included, and any
\* signed steps, the grids get_lat_lon has returned have shape (H, W), cell
\* [0][0] is (lat0, lon0) and cell [H-1][W-1] is
\* (lat0 + latStep*H, lon0 + lonStep*W).
C2_Original ==
    LET g == get_lat_lon(meta)
        lat1 == meta.Y_FIRST + meta.Y_STEP * H0
        lon1 == meta.X_FIRST + meta.X_STEP * W0
    IN  lats # None =>
        /\ GridShape(g)
        /\ FracIs(g[1][0][0], meta.Y_FIRST)
        /\ FracIs(g[2][0][0], meta.X_FIRST)
        /\ FracIs(g[1][H0 - 1][W0 - 1], lat1)
        /\ FracIs(g[2][H0 - 1][W0 - 1], lon1)
        /\ CornersInMain(lat1, lon1)

\* C2 as amended: the grids get_lat_lon has returned have shape (H, W) and
\* cell [0][0] is (lat0, lon0); the latitude of cell [H-1][W-1] is
\* lat0 + latStep*H when H > 1 and lat0 when H = 1, its longitude is
\* lon0 + lonStep*W when W > 1 and lon0 when W = 1.
C2_Corners ==
    LET g == get_lat_lon(meta)
        lat1 == IF H0 > 1 THEN meta.Y_FIRST + meta.Y_STEP * H0 ELSE meta.Y_FIRST
        lon1 == IF W0 > 1 THEN meta.X_FIRST + meta.X_STEP * W0 ELSE meta.X_FIRST
    IN  lats # None =>
        /\ GridShape(g)
        /\ FracIs(g[1][0][0], meta.Y_FIRST)
        /\ FracIs(g[2][0][0], meta.X_FIRST)
        /\ FracIs(g[1][H0 - 1][W0 - 1], lat1)
        /\ FracIs(g[2][H0 - 1][W0 - 1], lon1)
        /\ CornersInMain(lat1, lon1)

\* main has taken the coordinates of a raster of one row and several columns:
\* the last latitude is lat0, the last longitude lon0 + lonStep*W
C2_Witness ==
    /\ lats # None
    /\ H0 = 1
    /\ W0 = MaxW
    /\ meta.Y_STEP = -2
    /\ FracIs(lats[W0], meta.Y_FIRST)
    /\ FracIs(lons[W0], meta.X_FIRST + meta.X_STEP * W0)

\* the 3x3 raster of the scenario, valid everywhere but in its centre cell
IsScenario3x3 ==
    /\ meta = [LENGTH |-> 3, WIDTH |-> 3, Y_FIRST |-> 10, X_FIRST |-> 20,
               Y_STEP |-> -1, X_STEP |-> 1]
    /\ ValidCells = (0..8) \ {4}

(***************************************************************************)
(* C3: for a 3x3 grid with origin lat 10, lon 20, latStep -1, lonStep 1,    *)
(* get_lat_lon yields latitude rows [10,10,10], [9,9,9], [8,8,8] and        *)
(* longitudes [20,21,22] in every row; with velocity valid everywhere but  *)
(* the centre cell, exactly 8 placemarks are emitted.                      *)
(***************************************************************************)
C3_Scenario ==
    (IsScenario3x3 /\ lats # None) =>
        /\ \A r \in 0..2 : \A c \in 0..2 :
              /\ FracIs(get_lat_lon(meta)[1][r][c], 10 - r)
              /\ FracIs(get_lat_lon(meta)[2][r][c], 20 + c)
        /\ LoopDone => NumPlacemarks = 8

(***************************************************************************)
(* C5: the chart value range is computed once, before any placemark is     *)
(* built, as the (min, max) over every (date, valid cell) value of the     *)
(* masked time-series field (as np.min and np.max give it: both are        *)
(* missing when a value is missing), and every placemark's chart carries   *)
(* this same pair whatever its own series is.                              *)
(***************************************************************************)
C5_SharedRange ==
    /\ ts_min # Unset =>
          IF IsMaskedValue(NaN)
          THEN ts_min = NaN /\ ts_max = NaN
          ELSE /\ IsMaskedValue(ts_min)
               /\ IsMaskedValue(ts_max)
               /\ \A j \in 1..NumDates : \A q \in 0..(H0 * W0 - 1) :
                      IsValid(q) =>
                          ts_min <= Displacement(j, q) /\ Displacement(j, q) <= ts_max
    /\ kml_document # None => ts_min # Unset /\ ts_max # Unset
    /\ \A k \in 0..(NumPlacemarks - 1) :
          PlacemarkAt(k).valueRange = <<ts_min, ts_max>>

\* two placemarks with different series, neither of which spans the range
C5_Witness ==
    /\ NumPlacemarks = 2
    /\ PlacemarkAt(0).rows # PlacemarkAt(1).rows
    /\ ts_min # NaN
    /\ ts_min < ts_max
    /\ \A k \in 0..1 : \E j \in 1..NumDates :
          /\ PlacemarkAt(k).rows[j][2] # ts_min
          /\ PlacemarkAt(k).rows[j][2] # ts_max

\* the steps that write a file, and the failure each can have
PackagingSteps == {"savefig", "cp_dot", "cp_dygraph", "write_kml", "zip"}

(***************************************************************************)
(* C6: if a required asset is missing or a copy, write or archive step     *)
(* fails, the run ends failed and no archive exists when it ends.          *)
(***************************************************************************)
C6_NoPartialArchive ==
    (pc \in {"done", "failed"} /\ errs \cap PackagingSteps # {}) =>
        /\ pc = "failed"
        /\ kmz = {}

\* the command line names a colormap matplotlib does not know
UnknownScale == inps.colormap # None /\ inps.colormap \notin KnownCmaps

C8_ArchiveThenClean ==
    /\ []((pc = "done" /\ errs = {}) =>
            /\ kmz = {kml_file, cbar_png_file, dygraph_file, dot_file}
            /\ files \cap Loose = {})
    /\ [](pc = "zip" => kmz = {} /\ "zip" \notin errs)
    /\ [][(files \ files') # {} =>
            /\ pc = "clean"
            /\ kmz # {} \/ "zip" \in errs]_vars

\* a run that ended with every step succeeding
C8_Witness ==
    /\ pc = "done"
    /\ errs = {}
    /\ Cardinality(kmz) = 4
    /\ files = {}

(***************************************************************************)
(* C9: every placemark is built from exactly one valid grid cell (r, c):   *)
(* its coordinate is the longitude of (r, c) then its latitude, its colour *)
(* is derived from the velocity of (r, c) and its chart rows are the       *)
(* displacements of (r, c), one per date in ascending date order.          *)
(***************************************************************************)
C9_OneCellPerPlacemark ==
    /\ \A k \in 0..(NumPlacemarks - 1) :
          /\ \E q \in 0..(H0 * W0 - 1) : IsValid(q) /\ BuiltFrom(PlacemarkAt(k), q)
          /\ PlacemarkAt(k).color.order = <<"a", "b", "g", "r">>
          /\ \A j \in 1..(NumDates - 1) :
                PlacemarkAt(k).rows[j][1] < PlacemarkAt(k).rows[j + 1][1]
    /\ \A j \in 1..(NumDates - 1) : dates[j] < dates[j + 1]

\* a placemark of a cell whose position among the valid pixels is not its
\* flat index, with a colour that tells its velocity from its neighbours'
C9_Witness ==
    /\ NumPlacemarks = 2
    /\ velFile[0][1] = NaN
    /\ min_vel < max_vel
    /\ BuiltFrom(PlacemarkAt(1), Stride + 1)
    /\ ~BuiltFrom(PlacemarkAt(1), Stride)

\* a value of the time-series file is missing in a cell the mask keeps
MissingInValidCell == IsMaskedValue(NaN)

(***************************************************************************)
(* C10: if the time-series field holds a missing value at some date of a   *)
(* cell the mask marks valid, the run fails before any placemark or output *)
(* file is produced; no chart and no shared range holds a missing value.   *)
(***************************************************************************)
C10_FailFastOnMissing ==
    MissingInValidCell =>
        /\ pc # "done"
        /\ NumPlacemarks = 0
        /\ files = {}
        /\ kmz = {}
        /\ ts_min # NaN
        /\ ts_max # NaN

====
